---- MODULE Spec2Model ----
(***************************************************************************)
(* Model of hardhat/contracts/ConfidentialNewsletterLock.sol: the          *)
(* subscription ledger, the set-once FHE content key and its ACL.          *)
(* Every external function of the contract is one action; a call that      *)
(* reverts leaves the ledger untouched and only records its error in       *)
(* `last', the receipt of the call executed by the step.                   *)
(* The browser client is modelled next to it: the user-decryption          *)
(* handshake of lib/fhevm.js, one action per stretch between two awaits,   *)
(* the AES-GCM content codec of lib/crypto.ts, the conversion of the       *)
(* content key to and from the integer stored on chain, and the article    *)
(* page (ContentPage) with its access check and decryption.  The guarded   *)
(* calls of the contract are also modelled split at their value transfer,  *)
(* with the recipient calling back before the transfer returns.            *)
(***************************************************************************)
EXTENDS Integers, FiniteSets, Sequences, TLC

\* ---------------------------------------------------------------- bounds
\* largest value of the (scaled-down) uint256 type; checked arithmetic
\* reverts with a Panic above it
UintMax == 3
\* largest block.timestamp the model advances to
MaxTime == 2

\* --------------------------------------------------------- input domains
\* subscription prices: free and paid
Prices == {0, 1}
\* msg.value sent with subscribe(): below, at and above the paid price
Values == {0, 1, 2}
\* subscription durations a deployment is given
Durations == {1}
\* durations offered to updateSubscriptionParams (0 is rejected)
UpdateDurations == {0, 1}
\* durations offered to grantSubscription (any uint256 is accepted)
GrantDurations == {0, 1, 2}
\* durations offered to updateSubscriptionParams where the duration is
\* made to change
NewDurations == {0, 1, 2}

\* ------------------------------------------------------------ identities
Accounts == {"publisher", "alice"}
ZeroAddress == "0x0"
ThisContract == "this"
Deployer == "publisher"
\* the ciphertext handle each account encrypted for this contract (an
\* encrypted input is bound to the contract and to the user who made it);
\* 0 is the empty handle
HandleOf == [a \in Accounts |-> IF a = "publisher" THEN 1 ELSE 2]

VARIABLES
    owner,                  \* Ownable._owner
    subscriptionPrice,
    subscriptionDuration,
    contentKey,             \* euint256 handle, 0 while uninitialised
    contentKeySet,
    expirationTimestamps,   \* mapping(address => uint256)
    totalRevenue,
    balance,                \* address(this).balance
    acl,                    \* identities allowed on the contentKey handle
    now,                    \* block.timestamp
    last,                   \* receipt of the call executed by this step
    collected,              \* history: prices retained since the last withdraw
    fheInstance,            \* lib/fhevm.js: whether the relayer instance exists
    nextKeypair,            \* the keypair relayer.generateKeypair() yields next
    attempts,               \* requestUserDecryption calls in flight
    codec,                  \* lib/crypto.ts: inputs and results of a codec call
    _status,                \* ReentrancyGuard: is a guarded call running
    outer,                  \* the guarded call suspended in its value transfer
    page                    \* ContentPage: the component's state

ledger == <<owner, subscriptionPrice, subscriptionDuration, contentKey,
            contentKeySet, expirationTimestamps, totalRevenue, balance, acl,
            collected>>
\* the state of the browser client
offchain == <<fheInstance, nextKeypair, attempts, codec, page>>
\* the call in progress
callstack == <<_status, outer>>
vars == <<owner, subscriptionPrice, subscriptionDuration, contentKey,
          contentKeySet, expirationTimestamps, totalRevenue, balance, acl,
          now, last, collected, fheInstance, nextKeypair, attempts, codec,
          _status, outer, page>>

\* The receipt of a call that returned: which function ran, who called it,
\* the arguments that shaped its effect, what it returned or sent, and the
\* events it emitted, in order.
Receipt(op, sender) ==
    [op |-> op, sender |-> sender, err |-> "ok",
     subscriber |-> ZeroAddress, duration |-> 0, value |-> 0,
     sentTo |-> ZeroAddress, sent |-> 0, ret |-> 0, events |-> <<>>]

\* The receipt of a call that reverted: the function and the error.
Reverted(op, err) == [Receipt(op, ZeroAddress) EXCEPT !.err = err]

\* ------------------------------------------------------------- modifiers
\* mutant: the modifier lets everybody through
onlyOwner_anyone(sender) == TRUE

\* Ownable.onlyOwner
onlyOwner(sender) == sender = owner

\* ------------------------------------------------------------ view logic
\* mutant: a subscription still counts as valid at its expiration second
_isSubscriptionValid_inclusive(_subscriber) ==
    expirationTimestamps[_subscriber] >= now

\* mutant: a record, once created, never lapses
_isSubscriptionValid_nonzero(_subscriber) ==
    expirationTimestamps[_subscriber] # 0

_isSubscriptionValid(_subscriber) ==
    expirationTimestamps[_subscriber] > now

\* mutant: the owner needs a valid subscription like everybody else
getContentKeyErr_noOwnerBypass(sender) ==
    IF ~_isSubscriptionValid(sender)
    THEN "NoValidSubscription"
    ELSE "ok"

getContentKeyErr(sender) ==
    IF ~_isSubscriptionValid(sender) /\ sender # owner
    THEN "NoValidSubscription"
    ELSE "ok"

\* --------------------------------------------------- subscription record
\* mutant: a renewal restarts from the current time
newExpiration_fromNow(_subscriber, _duration) == now + _duration

\* _createOrExtendSubscription: the expiration it stores
newExpiration(_subscriber, _duration) ==
    LET expirationTimestamp == expirationTimestamps[_subscriber] IN
    IF expirationTimestamp = 0
    THEN now + _duration
    ELSE LET baseTime == IF expirationTimestamp > now
                         THEN expirationTimestamp ELSE now
         IN  baseTime + _duration

\* mutant: the event is chosen by whether the record is still valid
createOrExtendEvents_byValidity(_subscriber) ==
    <<IF expirationTimestamps[_subscriber] <= now
      THEN "SubscriptionPurchased" ELSE "SubscriptionRenewed",
      "KeyAccessGranted">>

\* _createOrExtendSubscription: the events it emits
createOrExtendEvents(_subscriber) ==
    <<IF expirationTimestamps[_subscriber] = 0
      THEN "SubscriptionPurchased" ELSE "SubscriptionRenewed",
      "KeyAccessGranted">>

\* _createOrExtendSubscription: totalRevenue += _pricePaid
revenueAfter(_pricePaid) == totalRevenue + _pricePaid

\* mutant: a grant reaches every account
allow_everyone(set, who) == set \cup Accounts

\* mutant: the ACL grant is skipped
allow_skipped(set, who) == set

\* FHE.allow(contentKey, who)
allow(set, who) == set \cup {who}

\* mutant: the additions are not checked
createOrExtendErr_unchecked(_subscriber, _duration, _pricePaid) == "ok"

\* checked arithmetic of solidity ^0.8: an overflowing addition reverts
createOrExtendErr(_subscriber, _duration, _pricePaid) ==
    IF newExpiration(_subscriber, _duration) > UintMax THEN "Panic"
    ELSE IF revenueAfter(_pricePaid) > UintMax THEN "Panic"
    ELSE "ok"

\* ----------------------------------------------------- off-chain client
\* the two calls of requestUserDecryption that may be in flight together
AttemptIds == {1, 2}
\* number of keypairs relayer.generateKeypair() hands out in a run
MaxKeypairs == 3
\* requestUserDecryption: const durationDays = "10"
durationDays == 10
\* the plaintext the decryption service holds for a ciphertext handle
PlainOf == [h \in {1, 2} |-> 10 + h]
\* what relayer.userDecrypt throws when the service cannot be reached
NetworkFailures == {"Failed to fetch", "NetworkError"}
ServiceStates == {"up"} \cup NetworkFailures
\* the message of decryptValue's error for an unreachable service
ServiceUnavailable ==
    "Decryption service is temporarily unavailable. Please try again later."

NoSignature == [signer |-> ZeroAddress, publicKey |-> 0,
                startTimeStamp |-> 0, durationDays |-> 0]

\* no call in flight: the locals of requestUserDecryption do not exist
IdleAttempt ==
    [pc |-> "idle", caller |-> ZeroAddress, handle |-> 0, keypair |-> 0,
     startTimeStamp |-> 0, durationDays |-> 0, signature |-> NoSignature]

\* no codec call made
NoCodec == [op |-> "none"]
\* no guarded call is suspended
NoCall == [op |-> "none"]
\* App: account before a wallet is connected
NoAccount == ""
\* a React state that is null, and one that holds a value
Null == [null |-> TRUE]
Some(v) == [null |-> FALSE, value |-> v]

\* ------------------------------------------------------------------ Init
\* durations a deployment is attempted with
DeployDurations == {0} \cup Durations

\* constructor: the check on its arguments
constructorErr(_duration) ==
    IF _duration = 0 THEN "InvalidDuration" ELSE "ok"

\* the state after a deployment that did not revert
Init ==
    /\ owner = Deployer
    /\ subscriptionPrice \in Prices
    /\ subscriptionDuration \in
          {d \in DeployDurations : constructorErr(d) = "ok"}
    /\ contentKey = 0
    /\ contentKeySet = FALSE
    /\ expirationTimestamps = [a \in Accounts |-> 0]
    /\ totalRevenue = 0
    /\ balance = 0
    /\ acl = {}
    /\ now = 1
    /\ last = Receipt("constructor", Deployer)
    /\ collected = 0
    /\ fheInstance = FALSE
    /\ nextKeypair = 1
    /\ attempts = [i \in AttemptIds |-> IdleAttempt]
    /\ codec = NoCodec
    /\ _status = "NOT_ENTERED"
    /\ outer = NoCall
    /\ page = [account |-> NoAccount, wallet |-> NoAccount,
               contentData |-> Null, accessStatus |-> Null,
               subscriptionPrice |-> Null, decryptedContent |-> Null,
               error |-> ""]

\* --------------------------------------------------------- setContentKey
\* mutant: the set-once check is missing
setContentKeyErr_overwrite(sender, proofOk) ==
    IF ~onlyOwner(sender) THEN "OwnableUnauthorizedAccount"
    ELSE IF ~proofOk THEN "InvalidProof"
    ELSE "ok"

\* `proofOk' is whether FHE.fromExternal accepts the input proof
setContentKeyErr(sender, proofOk) ==
    IF ~onlyOwner(sender) THEN "OwnableUnauthorizedAccount"
    ELSE IF contentKeySet THEN "ContentKeyAlreadySet"
    ELSE IF ~proofOk THEN "InvalidProof"
    ELSE "ok"

setContentKey(sender, _encryptedKey, proofOk) ==
    LET err == setContentKeyErr(sender, proofOk) IN
    /\ IF err = "ok"
       THEN /\ last' = [Receipt("setContentKey", sender)
                          EXCEPT !.ret = _encryptedKey,
                                 !.events = <<"ContentKeySet">>]
            /\ contentKey' = _encryptedKey
            /\ acl' = allow(allow(acl, ThisContract), sender)
            /\ contentKeySet' = TRUE
            /\ UNCHANGED <<owner, subscriptionPrice, subscriptionDuration,
                           expirationTimestamps, totalRevenue, balance,
                           collected>>
       ELSE /\ last' = Reverted("setContentKey", err)
            /\ UNCHANGED ledger
    /\ UNCHANGED <<now, offchain, callstack>>

\* ---------------------------------------------- updateSubscriptionParams
\* mutant: a zero duration is accepted
updateSubscriptionParamsErr_anyDuration(sender, _newDuration) ==
    IF ~onlyOwner(sender) THEN "OwnableUnauthorizedAccount" ELSE "ok"

updateSubscriptionParamsErr(sender, _newDuration) ==
    IF ~onlyOwner(sender) THEN "OwnableUnauthorizedAccount"
    ELSE IF _newDuration = 0 THEN "InvalidDuration"
    ELSE "ok"

\* mutant: the new duration is not stored
updateSubscriptionParams_priceOnly(sender, _newPrice, _newDuration) ==
    LET err == updateSubscriptionParamsErr(sender, _newDuration) IN
    /\ IF err = "ok"
       THEN /\ last' = [Receipt("updateSubscriptionParams", sender)
                          EXCEPT !.value = _newPrice,
                                 !.duration = _newDuration,
                                 !.events = <<"SubscriptionParamsUpdated">>]
            /\ subscriptionPrice' = _newPrice
            /\ UNCHANGED <<owner, subscriptionDuration, contentKey,
                           contentKeySet, expirationTimestamps, totalRevenue,
                           balance, acl, collected>>
       ELSE /\ last' = Reverted("updateSubscriptionParams", err)
            /\ UNCHANGED ledger
    /\ UNCHANGED <<now, offchain, callstack>>

updateSubscriptionParams(sender, _newPrice, _newDuration) ==
    LET err == updateSubscriptionParamsErr(sender, _newDuration) IN
    /\ IF err = "ok"
       THEN /\ last' = [Receipt("updateSubscriptionParams", sender)
                          EXCEPT !.value = _newPrice,
                                 !.duration = _newDuration,
                                 !.events = <<"SubscriptionParamsUpdated">>]
            /\ subscriptionPrice' = _newPrice
            /\ subscriptionDuration' = _newDuration
            /\ UNCHANGED <<owner, contentKey, contentKeySet,
                           expirationTimestamps, totalRevenue, balance, acl,
                           collected>>
       ELSE /\ last' = Reverted("updateSubscriptionParams", err)
            /\ UNCHANGED ledger
    /\ UNCHANGED <<now, offchain, callstack>>

\* -------------------------------------------------------------- withdraw
\* mutant: an empty balance is paid out like any other
withdrawErr_noBalanceCheck(sender, accepts) ==
    IF ~onlyOwner(sender) THEN "OwnableUnauthorizedAccount"
    ELSE IF ~accepts THEN "Transfer failed"
    ELSE "ok"

\* `accepts' is whether the recipient of the value transfer accepts it
withdrawErr(sender, accepts) ==
    IF ~onlyOwner(sender) THEN "OwnableUnauthorizedAccount"
    ELSE IF balance = 0 THEN "NoFundsToWithdraw"
    ELSE IF ~accepts THEN "Transfer failed"
    ELSE "ok"

withdraw(sender, accepts) ==
    LET err == withdrawErr(sender, accepts) IN
    /\ IF err = "ok"
       THEN /\ last' = [Receipt("withdraw", sender)
                          EXCEPT !.sentTo = owner, !.sent = balance,
                                 !.events = <<"FundsWithdrawn">>]
            /\ balance' = 0
            /\ collected' = 0
            /\ UNCHANGED <<owner, subscriptionPrice, subscriptionDuration,
                           contentKey, contentKeySet, expirationTimestamps,
                           totalRevenue, acl>>
       ELSE /\ last' = Reverted("withdraw", err)
            /\ UNCHANGED ledger
    /\ UNCHANGED <<now, offchain, callstack>>

\* ----------------------------------------------------- grantSubscription
\* mutant: a subscription can be granted before there is a key
grantSubscriptionErr_noKeyCheck(sender, _subscriber, _duration) ==
    IF ~onlyOwner(sender) THEN "OwnableUnauthorizedAccount"
    ELSE createOrExtendErr(_subscriber, _duration, 0)

grantSubscriptionErr(sender, _subscriber, _duration) ==
    IF ~onlyOwner(sender) THEN "OwnableUnauthorizedAccount"
    ELSE IF ~contentKeySet THEN "ContentKeyNotSet"
    ELSE createOrExtendErr(_subscriber, _duration, 0)

\* mutant: a granted subscription is booked at the current price
grantSubscription_booked(sender, _subscriber, _duration) ==
    LET err == grantSubscriptionErr(sender, _subscriber, _duration) IN
    /\ IF err = "ok"
       THEN /\ last' = [Receipt("grantSubscription", sender)
                          EXCEPT !.subscriber = _subscriber,
                                 !.duration = _duration,
                                 !.events = createOrExtendEvents(_subscriber)]
            /\ expirationTimestamps' =
                  [expirationTimestamps EXCEPT
                     ![_subscriber] = newExpiration(_subscriber, _duration)]
            /\ acl' = allow(acl, _subscriber)
            /\ totalRevenue' = revenueAfter(subscriptionPrice) % (UintMax + 1)
            /\ UNCHANGED <<owner, subscriptionPrice, subscriptionDuration,
                           contentKey, contentKeySet, balance, collected>>
       ELSE /\ last' = Reverted("grantSubscription", err)
            /\ UNCHANGED ledger
    /\ UNCHANGED <<now, offchain, callstack>>

grantSubscription(sender, _subscriber, _duration) ==
    LET err == grantSubscriptionErr(sender, _subscriber, _duration) IN
    /\ IF err = "ok"
       THEN /\ last' = [Receipt("grantSubscription", sender)
                          EXCEPT !.subscriber = _subscriber,
                                 !.duration = _duration,
                                 !.events = createOrExtendEvents(_subscriber)]
            /\ expirationTimestamps' =
                  [expirationTimestamps EXCEPT
                     ![_subscriber] = newExpiration(_subscriber, _duration)]
            /\ acl' = allow(acl, _subscriber)
            /\ totalRevenue' = revenueAfter(0)
            /\ UNCHANGED <<owner, subscriptionPrice, subscriptionDuration,
                           contentKey, contentKeySet, balance, collected>>
       ELSE /\ last' = Reverted("grantSubscription", err)
            /\ UNCHANGED ledger
    /\ UNCHANGED <<now, offchain, callstack>>

\* ------------------------------------------------------------- subscribe
\* mutant: the excess is kept
refundAmount_none(value) == 0

\* the excess returned to msg.sender
refundAmount(value) ==
    IF value > subscriptionPrice THEN value - subscriptionPrice ELSE 0

\* mutant: the payment check is missing
subscribeErr_noPaymentCheck(sender, value, accepts) ==
    IF ~contentKeySet THEN "ContentKeyNotSet"
    ELSE IF createOrExtendErr(sender, subscriptionDuration, value) # "ok"
         THEN createOrExtendErr(sender, subscriptionDuration, value)
    ELSE IF value > subscriptionPrice /\ ~accepts THEN "Refund failed"
    ELSE "ok"

\* mutant: the result of the refund transfer is not looked at
subscribeErr_uncheckedRefund(sender, value, accepts) ==
    IF ~contentKeySet THEN "ContentKeyNotSet"
    ELSE IF value < subscriptionPrice THEN "InsufficientPayment"
    ELSE createOrExtendErr(sender, subscriptionDuration, value)

\* `accepts' is whether msg.sender accepts the refund transfer
subscribeErr(sender, value, accepts) ==
    IF ~contentKeySet THEN "ContentKeyNotSet"
    ELSE IF value < subscriptionPrice THEN "InsufficientPayment"
    ELSE IF createOrExtendErr(sender, subscriptionDuration, value) # "ok"
         THEN createOrExtendErr(sender, subscriptionDuration, value)
    ELSE IF value > subscriptionPrice /\ ~accepts THEN "Refund failed"
    ELSE "ok"

subscribe(sender, value, accepts) ==
    LET err == subscribeErr(sender, value, accepts) IN
    /\ IF err = "ok"
       THEN /\ last' = [Receipt("subscribe", sender)
                          EXCEPT !.subscriber = sender,
                                 !.duration = subscriptionDuration,
                                 !.value = value,
                                 !.sentTo = IF refundAmount(value) > 0
                                            THEN sender ELSE ZeroAddress,
                                 !.sent = refundAmount(value),
                                 !.events = createOrExtendEvents(sender)]
            /\ expirationTimestamps' =
                  [expirationTimestamps EXCEPT
                     ![sender] = newExpiration(sender, subscriptionDuration)]
            /\ acl' = allow(acl, sender)
            /\ totalRevenue' = revenueAfter(value)
            /\ balance' = (balance + value) - refundAmount(value)
            /\ collected' = collected + subscriptionPrice
            /\ UNCHANGED <<owner, subscriptionPrice, subscriptionDuration,
                           contentKey, contentKeySet>>
       ELSE /\ last' = Reverted("subscribe", err)
            /\ UNCHANGED ledger
    /\ UNCHANGED <<now, offchain, callstack>>

\* --------------------------------------------------------- getContentKey
getContentKey(sender) ==
    LET err == getContentKeyErr(sender) IN
    /\ last' = IF err = "ok"
               THEN [Receipt("getContentKey", sender)
                       EXCEPT !.ret = contentKey]
               ELSE Reverted("getContentKey", err)
    /\ UNCHANGED ledger
    /\ UNCHANGED <<now, offchain, callstack>>

\* ------------------------------------------------ getSubscriptionDetails
\* returns (expirationTimestamp, isValid); the result does not depend on
\* msg.sender
getSubscriptionDetails(sender, _subscriber) ==
    /\ last' = [Receipt("getSubscriptionDetails", ZeroAddress)
                  EXCEPT !.subscriber = _subscriber,
                         !.ret = <<expirationTimestamps[_subscriber],
                                   _isSubscriptionValid(_subscriber)>>]
    /\ UNCHANGED ledger
    /\ UNCHANGED <<now, offchain, callstack>>

\* ----------------------------------------------------- Ownable transfers
transferOwnershipErr(sender, newOwner) ==
    IF ~onlyOwner(sender) THEN "OwnableUnauthorizedAccount"
    ELSE IF newOwner = ZeroAddress THEN "OwnableInvalidOwner"
    ELSE "ok"

transferOwnership(sender, newOwner) ==
    LET err == transferOwnershipErr(sender, newOwner) IN
    /\ IF err = "ok"
       THEN /\ last' = [Receipt("transferOwnership", sender)
                          EXCEPT !.events = <<"OwnershipTransferred">>]
            /\ owner' = newOwner
            /\ UNCHANGED <<subscriptionPrice, subscriptionDuration,
                           contentKey, contentKeySet, expirationTimestamps,
                           totalRevenue, balance, acl, collected>>
       ELSE /\ last' = Reverted("transferOwnership", err)
            /\ UNCHANGED ledger
    /\ UNCHANGED <<now, offchain, callstack>>

renounceOwnership(sender) ==
    /\ IF onlyOwner(sender)
       THEN /\ last' = [Receipt("renounceOwnership", sender)
                          EXCEPT !.events = <<"OwnershipTransferred">>]
            /\ owner' = ZeroAddress
            /\ UNCHANGED <<subscriptionPrice, subscriptionDuration,
                           contentKey, contentKeySet, expirationTimestamps,
                           totalRevenue, balance, acl, collected>>
       ELSE /\ last' = Reverted("renounceOwnership",
                                "OwnableUnauthorizedAccount")
            /\ UNCHANGED ledger
    /\ UNCHANGED <<now, offchain, callstack>>

\* ------------------------------------------ lib/fhevm.js: the handshake
\* `created' is whether the SDK's createInstance succeeds
initializeFheInstance(created) ==
    /\ IF created
       THEN /\ fheInstance' = TRUE
            /\ last' = Receipt("initializeFheInstance", ZeroAddress)
       ELSE /\ last' = Reverted("initializeFheInstance",
                                "FHEVM instance creation failed")
            /\ UNCHANGED fheInstance
    /\ UNCHANGED <<ledger, callstack, page, now,
                  nextKeypair, attempts, codec>>

\* requestUserDecryption up to its first await: the relayer instance is
\* looked up, a keypair generated, the time read and the EIP-712 statement
\* built; the call then waits for the wallet
requestUserDecryption(i, caller, ciphertextHandle) ==
    /\ attempts[i].pc = "idle"
    /\ nextKeypair <= MaxKeypairs
    /\ IF ~fheInstance
       THEN /\ last' = Reverted("requestUserDecryption",
                                "FHEVM not initialized")
            /\ UNCHANGED <<nextKeypair, attempts>>
       ELSE /\ attempts' =
                  [attempts EXCEPT ![i] =
                     [pc |-> "signTypedData", caller |-> caller,
                      handle |-> ciphertextHandle,
                      keypair |-> nextKeypair,
                      startTimeStamp |-> now,
                      durationDays |-> durationDays,
                      signature |-> NoSignature]]
            /\ nextKeypair' = nextKeypair + 1
            /\ last' = Receipt("generateKeypair", caller)
    /\ UNCHANGED <<ledger, callstack, page, now,
                  fheInstance, codec>>

\* the wallet answers signer.signTypedData: the signature binds the signer
\* to the statement createEIP712 built from the call's own public key,
\* start time and duration
signTypedData(i, approved) ==
    /\ attempts[i].pc = "signTypedData"
    /\ IF approved
       THEN /\ attempts' =
                  [attempts EXCEPT
                     ![i].pc = "userDecrypt",
                     ![i].signature =
                        [signer |-> attempts[i].caller,
                         publicKey |-> attempts[i].keypair,
                         startTimeStamp |-> attempts[i].startTimeStamp,
                         durationDays |-> attempts[i].durationDays]]
            /\ last' = Receipt("signTypedData", attempts[i].caller)
       ELSE /\ attempts' = [attempts EXCEPT ![i] = IdleAttempt]
            /\ last' = Reverted("requestUserDecryption",
                                "user rejected the request")
    /\ UNCHANGED <<ledger, callstack, page, now,
                  fheInstance, nextKeypair, codec>>

\* mutant: the keypair lives in one place shared by all calls
keypairOf_latest(i) == nextKeypair - 1

\* the `keypair' the call reads when it submits
keypairOf(i) == attempts[i].keypair

\* the arguments of relayer.userDecrypt
Request(i) ==
    [handle |-> attempts[i].handle,
     privateKey |-> keypairOf(i),
     publicKey |-> keypairOf(i),
     signature |-> attempts[i].signature,
     userAddress |-> attempts[i].caller,
     startTimeStamp |-> attempts[i].startTimeStamp,
     durationDays |-> attempts[i].durationDays]

\* the decryption service reveals a handle to the identities FHE.allow put
\* on its ACL, for a contract that is on it as well
serviceAllows(user, handle) ==
    /\ contentKeySet /\ handle = contentKey
    /\ user \in acl
    /\ ThisContract \in acl

\* relayer.userDecrypt: the error it throws for a request, "ok" when it
\* returns the plaintexts
userDecryptErr(request, service) ==
    IF service # "up" THEN service
    ELSE IF \/ request.signature.signer # request.userAddress
            \/ request.signature.publicKey # request.publicKey
            \/ request.signature.startTimeStamp # request.startTimeStamp
            \/ request.signature.durationDays # request.durationDays
         THEN "signature rejected"
    ELSE IF ~serviceAllows(request.userAddress, request.handle)
         THEN "user is not authorized to decrypt the handle"
    ELSE IF request.privateKey # request.publicKey
         THEN "response cannot be unwrapped"
    ELSE "ok"

\* requestUserDecryption has no catch: what userDecrypt throws is what the
\* caller gets
surfaced(err) == err

\* requestUserDecryption from relayer.userDecrypt to its return
userDecrypt(i, service) ==
    LET request == Request(i)
        err == userDecryptErr(request, service) IN
    /\ attempts[i].pc = "userDecrypt"
    /\ last' = IF err = "ok"
               THEN [Receipt("requestUserDecryption", request.userAddress)
                       EXCEPT !.ret = PlainOf[request.handle]]
               ELSE Reverted("requestUserDecryption", surfaced(err))
    /\ attempts' = [attempts EXCEPT ![i] = IdleAttempt]
    /\ UNCHANGED <<ledger, callstack, page, now,
                  fheInstance, nextKeypair, codec>>

\* --------------------------------------- lib/crypto.ts: the content codec
\* A string is the sequence of its UTF-16 code units, a byte array a
\* sequence over 0..255, a base64 text the sequence of its digits' values
\* (64 stands for the padding "=").  Sizes are scaled down: a key is one
\* byte instead of 32, an IV one byte instead of 12, a tag two bytes
\* instead of 16.
\* longest plaintext, in code units
MaxContentLen == 2
\* code units a plaintext is made of: "a", U+FEFF, and the two halves of
\* the surrogate pair of U+1F496
CodeUnits == {97, 65279, 55357, 56470}
Contents == UNION {[1..n -> CodeUnits] : n \in 0..MaxContentLen}
\* hex digits of a key, with and without the 0x prefix, in either case
KeyHexes == {<<"0", "x", "0", "1">>, <<"0", "1">>,
             <<"0", "x", "f", "e">>, <<"F", "E">>}
\* values crypto.getRandomValues may fill the IV with
Ivs == {<<0>>, <<255>>}

\* parseInt(d, 16) of one character; NaN is stored as 0 in a Uint8Array
HexDigit(c) ==
    CASE c = "0" -> 0 [] c = "1" -> 1 [] c = "2" -> 2 [] c = "3" -> 3
      [] c = "4" -> 4 [] c = "5" -> 5 [] c = "6" -> 6 [] c = "7" -> 7
      [] c = "8" -> 8 [] c = "9" -> 9 [] c = "a" -> 10 [] c = "b" -> 11
      [] c = "c" -> 12 [] c = "d" -> 13 [] c = "e" -> 14 [] c = "f" -> 15
      [] c = "A" -> 10 [] c = "B" -> 11 [] c = "C" -> 12 [] c = "D" -> 13
      [] c = "E" -> 14 [] c = "F" -> 15 [] OTHER -> 0

RECURSIVE hexPairs(_)
hexPairs(cleanHex) ==
    IF Len(cleanHex) < 2 THEN <<>>
    ELSE <<HexDigit(cleanHex[1]) * 16 + HexDigit(cleanHex[2])>>
           \o hexPairs(SubSeq(cleanHex, 3, Len(cleanHex)))

hexToBytes(hex) ==
    LET cleanHex == IF Len(hex) >= 2 /\ hex[1] = "0" /\ hex[2] = "x"
                    THEN SubSeq(hex, 3, Len(hex)) ELSE hex
    IN  hexPairs(cleanHex)

RECURSIVE bytesToBase64(_)
bytesToBase64(bytes) ==
    IF Len(bytes) = 0 THEN <<>>
    ELSE IF Len(bytes) = 1
    THEN <<bytes[1] \div 4, (bytes[1] % 4) * 16, 64, 64>>
    ELSE IF Len(bytes) = 2
    THEN <<bytes[1] \div 4, ((bytes[1] % 4) * 16) + (bytes[2] \div 16),
           (bytes[2] % 16) * 4, 64>>
    ELSE <<bytes[1] \div 4, ((bytes[1] % 4) * 16) + (bytes[2] \div 16),
           ((bytes[2] % 16) * 4) + (bytes[3] \div 64), bytes[3] % 64>>
           \o bytesToBase64(SubSeq(bytes, 4, Len(bytes)))

RECURSIVE base64ToBytes(_)
base64ToBytes(base64) ==
    IF Len(base64) < 4 THEN <<>>
    ELSE LET b1 == (base64[1] * 4) + (base64[2] \div 16)
             b2 == ((base64[2] % 16) * 16) + (base64[3] \div 4)
             b3 == ((base64[3] % 4) * 64) + base64[4]
         IN  IF base64[3] = 64 THEN <<b1>>
             ELSE IF base64[4] = 64 THEN <<b1, b2>>
             ELSE <<b1, b2, b3>>
                    \o base64ToBytes(SubSeq(base64, 5, Len(base64)))

\* UTF-8 of one scalar value
utf8(cp) ==
    IF cp < 128 THEN <<cp>>
    ELSE IF cp < 2048 THEN <<192 + (cp \div 64), 128 + (cp % 64)>>
    ELSE IF cp < 65536
    THEN <<224 + (cp \div 4096), 128 + ((cp \div 64) % 64), 128 + (cp % 64)>>
    ELSE <<240 + (cp \div 262144), 128 + ((cp \div 4096) % 64),
           128 + ((cp \div 64) % 64), 128 + (cp % 64)>>

isHighSurrogate(u) == u >= 55296 /\ u <= 56319
isLowSurrogate(u) == u >= 56320 /\ u <= 57343

\* new TextEncoder().encode(content): a surrogate pair is one scalar
\* value, a surrogate on its own is encoded as U+FFFD
RECURSIVE encode(_)
encode(content) ==
    IF Len(content) = 0 THEN <<>>
    ELSE IF /\ isHighSurrogate(content[1]) /\ Len(content) >= 2
            /\ isLowSurrogate(content[2])
    THEN utf8(65536 + (content[1] - 55296) * 1024 + (content[2] - 56320))
           \o encode(SubSeq(content, 3, Len(content)))
    ELSE IF isHighSurrogate(content[1]) \/ isLowSurrogate(content[1])
    THEN utf8(65533) \o encode(Tail(content))
    ELSE utf8(content[1]) \o encode(Tail(content))

RECURSIVE decodeScalars(_)
decodeScalars(bytes) ==
    IF Len(bytes) = 0 THEN <<>>
    ELSE IF bytes[1] < 128
    THEN <<bytes[1]>> \o decodeScalars(Tail(bytes))
    ELSE IF bytes[1] >= 192 /\ bytes[1] < 224 /\ Len(bytes) >= 2
    THEN <<(bytes[1] - 192) * 64 + (bytes[2] - 128)>>
           \o decodeScalars(SubSeq(bytes, 3, Len(bytes)))
    ELSE IF bytes[1] >= 224 /\ bytes[1] < 240 /\ Len(bytes) >= 3
    THEN <<(bytes[1] - 224) * 4096 + (bytes[2] - 128) * 64
              + (bytes[3] - 128)>>
           \o decodeScalars(SubSeq(bytes, 4, Len(bytes)))
    ELSE IF bytes[1] >= 240 /\ Len(bytes) >= 4
    THEN LET cp == (bytes[1] - 240) * 262144 + (bytes[2] - 128) * 4096
                     + (bytes[3] - 128) * 64 + (bytes[4] - 128)
         IN  <<55296 + ((cp - 65536) \div 1024),
               56320 + ((cp - 65536) % 1024)>>
               \o decodeScalars(SubSeq(bytes, 5, Len(bytes)))
    ELSE <<65533>> \o decodeScalars(Tail(bytes))

\* new TextDecoder().decode(bytes): ignoreBOM is false, so a leading
\* U+FEFF is dropped
decode(bytes) ==
    IF Len(bytes) >= 3 /\ SubSeq(bytes, 1, 3) = <<239, 187, 191>>
    THEN decodeScalars(SubSeq(bytes, 4, Len(bytes)))
    ELSE decodeScalars(bytes)

RECURSIVE sumBytes(_)
sumBytes(bytes) ==
    IF Len(bytes) = 0 THEN 0 ELSE bytes[1] + sumBytes(Tail(bytes))

\* what of the key enters the cipher: all of its bytes
keyMix(keyBytes) == sumBytes(keyBytes) % 256

\* the authentication tag of a ciphertext under a key and an IV
tagOf(keyBytes, iv, ciphertext) ==
    <<keyMix(keyBytes), (iv[1] + sumBytes(ciphertext)) % 256>>

\* crypto.subtle.encrypt({name: 'AES-GCM', iv}, key, data): the
\* ciphertext followed by its tag
aesGcmEncrypt(keyBytes, iv, data) ==
    LET ciphertext ==
            [i \in 1..Len(data) |->
                (data[i] + keyMix(keyBytes) + iv[1] + i) % 256]
    IN  ciphertext \o tagOf(keyBytes, iv, ciphertext)

\* crypto.subtle.decrypt: whether the tag authenticates the ciphertext
aesGcmAuthentic(keyBytes, iv, sealedBytes) ==
    /\ Len(sealedBytes) >= 2
    /\ SubSeq(sealedBytes, Len(sealedBytes) - 1, Len(sealedBytes)) =
          tagOf(keyBytes, iv,
                SubSeq(sealedBytes, 1, Len(sealedBytes) - 2))

\* crypto.subtle.decrypt: the plaintext of an authentic ciphertext
aesGcmDecrypt(keyBytes, iv, sealedBytes) ==
    [i \in 1..(Len(sealedBytes) - 2) |->
        (sealedBytes[i] + 768 - keyMix(keyBytes) - iv[1] - i) % 256]

\* encryptContent(content, keyHex), with the IV generateIv() drew
encryptContent(content, keyHex, iv) ==
    /\ codec' =
          [op |-> "encryptContent", content |-> content, keyHex |-> keyHex,
           iv |-> bytesToBase64(iv),
           encryptedContent |->
              bytesToBase64(aesGcmEncrypt(hexToBytes(keyHex), iv,
                                          encode(content)))]
    /\ UNCHANGED <<ledger, callstack, page, now,
                  last, fheInstance, nextKeypair, attempts>>

\* decryptContent(encryptedContent, iv, keyHex) applied to the result of
\* the encryptContent call; the sealed content and the key it was sealed
\* with are kept for comparison
decryptContent(encryptedContent, iv, keyHex) ==
    LET keyBytes == hexToBytes(keyHex)
        ivBytes == base64ToBytes(iv)
        encryptedBytes == base64ToBytes(encryptedContent)
    IN
    /\ codec.op = "encryptContent"
    /\ codec' =
          [op |-> "decryptContent", content |-> codec.content,
           keyHex |-> codec.keyHex, openKeyHex |-> keyHex,
           err |-> IF aesGcmAuthentic(keyBytes, ivBytes, encryptedBytes)
                   THEN "ok" ELSE "OperationError",
           ret |-> IF aesGcmAuthentic(keyBytes, ivBytes, encryptedBytes)
                   THEN decode(aesGcmDecrypt(keyBytes, ivBytes,
                                             encryptedBytes))
                   ELSE <<>>]
    /\ UNCHANGED <<ledger, callstack, page, now,
                  last, fheInstance, nextKeypair, attempts>>

\* ------------------------------------- the content key as an integer
\* The AES key is stored on chain as one integer and read back as hex
\* text.  Sizes are scaled down: a key is KeyBytes bytes instead of 32, so
\* its hex text is 2 * KeyBytes digits instead of 64.
KeyBytes == 2
\* values a byte of ethers.randomBytes may take
KeyByteValues == {0, 1, 15, 16, 171, 255}
AesKeys == [1..KeyBytes -> KeyByteValues]

HexChars == <<"0", "1", "2", "3", "4", "5", "6", "7",
              "8", "9", "a", "b", "c", "d", "e", "f">>

\* Buffer.from(aesKey).toString("hex"): two digits for every byte
RECURSIVE toHex(_)
toHex(bytes) ==
    IF Len(bytes) = 0 THEN <<>>
    ELSE <<HexChars[(bytes[1] \div 16) + 1], HexChars[(bytes[1] % 16) + 1]>>
           \o toHex(Tail(bytes))

\* BigInt("0x" + hex): the value of the digits after the prefix
RECURSIVE BigIntOfDigits(_)
BigIntOfDigits(digits) ==
    IF Len(digits) = 0 THEN 0
    ELSE BigIntOfDigits(SubSeq(digits, 1, Len(digits) - 1)) * 16
           + HexDigit(digits[Len(digits)])

BigInt(text) == BigIntOfDigits(SubSeq(text, 3, Len(text)))

\* BigInt.prototype.toString(16): no leading zeros
RECURSIVE toString16(_)
toString16(n) ==
    IF n < 16 THEN <<HexChars[n + 1]>>
    ELSE toString16(n \div 16) \o <<HexChars[(n % 16) + 1]>>

\* mutant: the text is not padded
padStart_none(str, targetLength) == str

\* String.prototype.padStart(targetLength, "0")
padStart(str, targetLength) ==
    IF Len(str) >= targetLength THEN str
    ELSE [i \in 1..(targetLength - Len(str)) |-> "0"] \o str

\* "0x" + decryptedKey.toString(16).padStart(64, "0"), at the scaled size
keyHexOf(decryptedKey) ==
    <<"0", "x">> \o padStart(toString16(decryptedKey), 2 * KeyBytes)

\* task:setContentKey: a fresh key is turned into the integer that is
\* encrypted and stored
task_setContentKey(aesKey) ==
    /\ codec' = [op |-> "task:setContentKey", aesKey |-> aesKey,
                 aesKeyBigInt |-> BigInt(<<"0", "x">> \o toHex(aesKey))]
    /\ UNCHANGED <<ledger, callstack, page, now,
                  last, fheInstance, nextKeypair, attempts>>

\* task:getContentKey and handleDecrypt: the decrypted integer is turned
\* into hex text, and importAesKey turns the text into the key bytes
task_getContentKey ==
    /\ codec.op = "task:setContentKey"
    /\ codec' = [op |-> "task:getContentKey", aesKey |-> codec.aesKey,
                 decryptedKey |-> codec.aesKeyBigInt,
                 keyHex |-> keyHexOf(codec.aesKeyBigInt),
                 keyBytes |-> hexToBytes(keyHexOf(codec.aesKeyBigInt))]
    /\ UNCHANGED <<ledger, callstack, page, now,
                  last, fheInstance, nextKeypair, attempts>>

\* ---------------------------------------------------------- ContentPage
\* The page of one article: the envelope fetched for the route's cid, the
\* access check run when the wallet, the relayer instance or the envelope
\* changes, and the decryption that follows it.

\* plaintexts of the articles
Articles == {<<97>>}

\* err?.message || 'Failed to decrypt content'
messageOrDefault(message) ==
    IF message = "" THEN "Failed to decrypt content" ELSE message

\* messages a browser gives the OperationError of crypto.subtle.decrypt
OperationErrorMessages ==
    {"", "The operation failed for an operation-specific reason"}

\* the envelope encryptContent makes of an article under the key whose
\* integer is stored behind a handle
Sealed(content, handle) ==
    [title |-> Len(content),
     iv |-> bytesToBase64(<<0>>),
     encryptedContent |->
        bytesToBase64(aesGcmEncrypt(hexToBytes(keyHexOf(PlainOf[handle])),
                                    <<0>>, encode(content)))]

\* a base64 text with its first digit changed
Corrupted(base64) == [base64 EXCEPT ![1] = (@ + 1) % 64]

\* what the gateway may serve for a cid: an article sealed under the key
\* the publisher stored, one sealed under another key, and one whose
\* ciphertext or IV was changed on the way
ContentDatas ==
    LET sealed == {Sealed(c, HandleOf[Deployer]) : c \in Articles}
        one == Sealed(<<97>>, HandleOf[Deployer])
    IN
    sealed \cup {Sealed(<<97>>, 2),
                 [one EXCEPT !.encryptedContent = Corrupted(@)],
                 [one EXCEPT !.iv = Corrupted(@)]}

\* decryptContent: the error crypto.subtle.decrypt throws, "ok" when the
\* tag verifies
decryptContentErr(encryptedContent, iv, keyHex) ==
    IF aesGcmAuthentic(hexToBytes(keyHex), base64ToBytes(iv),
                       base64ToBytes(encryptedContent))
    THEN "ok" ELSE "OperationError"

\* decryptContent: what it returns; a call that throws returns nothing
decryptContentRet(encryptedContent, iv, keyHex) ==
    IF decryptContentErr(encryptedContent, iv, keyHex) = "ok"
    THEN Some(decode(aesGcmDecrypt(hexToBytes(keyHex), base64ToBytes(iv),
                                   base64ToBytes(encryptedContent))))
    ELSE Null

\* handleDecrypt: the first error on its way from getContentKey through
\* requestUserDecryption to decryptContent; the signer is the account the
\* wallet has selected
handleDecryptErr(signer, contentData, initialized, approved, service) ==
    LET request ==
            [handle |-> contentKey,
             privateKey |-> nextKeypair, publicKey |-> nextKeypair,
             signature |-> [signer |-> signer, publicKey |-> nextKeypair,
                            startTimeStamp |-> now,
                            durationDays |-> durationDays],
             userAddress |-> signer, startTimeStamp |-> now,
             durationDays |-> durationDays]
    IN
    IF getContentKeyErr(signer) # "ok" THEN getContentKeyErr(signer)
    ELSE IF ~initialized THEN "FHEVM not initialized"
    ELSE IF ~approved THEN "user rejected the request"
    ELSE IF userDecryptErr(request, service) # "ok"
         THEN surfaced(userDecryptErr(request, service))
    ELSE decryptContentErr(contentData.encryptedContent, contentData.iv,
                           keyHexOf(PlainOf[contentKey]))

\* mutant: a failed decryption clears what was decrypted before
handleDecrypt_clearing(pg, initialized, approved, service, message) ==
    LET err == handleDecryptErr(pg.wallet, pg.contentData.value,
                                initialized, approved, service)
    IN
    IF pg.contentData.null THEN pg
    ELSE IF err = "ok"
    THEN [pg EXCEPT !.error = "",
                    !.decryptedContent =
                       decryptContentRet(pg.contentData.value.encryptedContent,
                                         pg.contentData.value.iv,
                                         keyHexOf(PlainOf[contentKey]))]
    ELSE [pg EXCEPT !.decryptedContent = Null,
                    !.error = messageOrDefault(IF err = "OperationError"
                                               THEN message ELSE err)]

\* handleDecrypt: the page it leaves
handleDecrypt(pg, initialized, approved, service, message) ==
    LET err == handleDecryptErr(pg.wallet, pg.contentData.value,
                                initialized, approved, service)
    IN
    IF pg.contentData.null THEN pg
    ELSE IF err = "ok"
    THEN [pg EXCEPT !.error = "",
                    !.decryptedContent =
                       decryptContentRet(pg.contentData.value.encryptedContent,
                                         pg.contentData.value.iv,
                                         keyHexOf(PlainOf[contentKey]))]
    ELSE [pg EXCEPT !.error = messageOrDefault(IF err = "OperationError"
                                               THEN message ELSE err)]

\* whether the access check goes on to decrypt
autoDecrypts(pg, initialized) ==
    /\ pg.account # NoAccount /\ initialized /\ ~pg.contentData.null
    /\ (owner = pg.account \/ _isSubscriptionValid(pg.account))

\* the checkAccess effect: the page it leaves
checkAccess(pg, initialized, approved, service, message) ==
    IF pg.account = NoAccount \/ ~initialized \/ pg.contentData.null
    THEN [pg EXCEPT !.accessStatus = Null]
    ELSE LET checked ==
                 [pg EXCEPT
                    !.accessStatus =
                       Some([isOwner |-> owner = pg.account,
                             isSubscriber |->
                                _isSubscriptionValid(pg.account)]),
                    !.subscriptionPrice = Some(subscriptionPrice)]
         IN  IF autoDecrypts(pg, initialized)
             THEN handleDecrypt(checked, initialized, approved, service,
                                message)
             ELSE checked

\* the receipt of a step of the page: of handleDecrypt when it ran
pageReceipt(op, pg, ran, initialized, approved, service) ==
    LET err == handleDecryptErr(pg.wallet, pg.contentData.value,
                                initialized, approved, service)
    IN
    IF ~ran THEN Receipt(op, ZeroAddress)
    ELSE IF err = "ok" THEN Receipt("handleDecrypt", pg.wallet)
    ELSE Reverted("handleDecrypt", err)

\* the route's cid changes: the envelope is fetched and stored, and the
\* access check runs on it
fetchContent(data, approved, service, message) ==
    LET fetched == [page EXCEPT !.error = "", !.contentData = Some(data)] IN
    /\ page.contentData # Some(data)
    /\ page' = checkAccess(fetched, fheInstance, approved, service, message)
    /\ last' = pageReceipt("fetchContent", fetched,
                           autoDecrypts(fetched, fheInstance), fheInstance,
                           approved, service)
    /\ UNCHANGED <<ledger, callstack, now,
                  fheInstance, nextKeypair, attempts, codec>>

\* App.connectWallet, offered while no wallet is connected: the account
\* the wallet has selected becomes the page's account, the relayer
\* instance is created, and the access check runs
connectWallet(a, created, approved, service, message) ==
    LET connected == [page EXCEPT !.account = a, !.wallet = a]
        initialized == fheInstance \/ created
    IN
    /\ page.account = NoAccount
    /\ fheInstance' = initialized
    /\ page' = checkAccess(connected, initialized, approved, service,
                           message)
    /\ last' = pageReceipt("connectWallet", connected,
                           autoDecrypts(connected, initialized),
                           initialized, approved, service)
    /\ UNCHANGED <<ledger, callstack, now, nextKeypair, attempts, codec>>

\* the user selects another account in the wallet: the App registers no
\* accountsChanged listener, so no state of the App or the page follows
accountsChanged(a) ==
    /\ page.account # NoAccount
    /\ page.wallet # a
    /\ page' = [page EXCEPT !.wallet = a]
    /\ last' = Receipt("accountsChanged", a)
    /\ UNCHANGED <<ledger, callstack, now,
                  fheInstance, nextKeypair, attempts, codec>>

\* whether the subscription prompt is rendered with its button enabled
promptShown ==
    /\ page.account # NoAccount /\ ~page.accessStatus.null
    /\ ~(page.accessStatus.value.isOwner
           \/ page.accessStatus.value.isSubscriber)
    /\ ~page.subscriptionPrice.null /\ page.subscriptionPrice.value # 0

\* handleSubscribe from the confirmation of its transaction on: the
\* status is set to subscribed and the content decrypted
handleSubscribe(approved, service, message) ==
    LET subscribed ==
            [page EXCEPT !.error = "",
                         !.accessStatus =
                            Some([@.value EXCEPT !.isSubscriber = TRUE])]
    IN
    /\ promptShown
    /\ last.op = "subscribe" /\ last.err = "ok"
    /\ last.sender = page.wallet
    /\ last.value = page.subscriptionPrice.value
    /\ page' = handleDecrypt(subscribed, fheInstance, approved, service,
                             message)
    /\ last' = pageReceipt("handleSubscribe", subscribed, TRUE, fheInstance,
                           approved, service)
    /\ UNCHANGED <<ledger, callstack, now,
                  fheInstance, nextKeypair, attempts, codec>>

\* ------------------------------------------- calls with their transfers
\* The guarded calls split at their value transfer: the call runs up to
\* the transfer, the receiving account's code runs and may call back into
\* the contract, then the transfer returns and the call completes or
\* reverts.

\* mutant: the guard lets every call through
nonReentrant_open == TRUE

\* ReentrancyGuard.nonReentrant: the check on entry
nonReentrant == _status # "ENTERED"

\* what a revert of the suspended call restores
Saved ==
    [expirationTimestamps |-> expirationTimestamps, acl |-> acl,
     totalRevenue |-> totalRevenue, balance |-> balance,
     collected |-> collected]

\* subscribe up to its refund transfer; without an excess it completes
subscribe_enter(sender, value) ==
    LET err == IF ~nonReentrant THEN "ReentrancyGuardReentrantCall"
               ELSE subscribeErr(sender, value, TRUE)
        receipt == [Receipt("subscribe", sender)
                      EXCEPT !.subscriber = sender,
                             !.duration = subscriptionDuration,
                             !.value = value,
                             !.sentTo = IF refundAmount(value) > 0
                                        THEN sender ELSE ZeroAddress,
                             !.sent = refundAmount(value),
                             !.events = createOrExtendEvents(sender)]
    IN
    /\ IF err = "ok"
       THEN /\ expirationTimestamps' =
                  [expirationTimestamps EXCEPT
                     ![sender] = newExpiration(sender, subscriptionDuration)]
            /\ acl' = allow(acl, sender)
            /\ totalRevenue' = revenueAfter(value)
            /\ balance' = (balance + value) - refundAmount(value)
            /\ collected' = collected + subscriptionPrice
            /\ UNCHANGED <<owner, subscriptionPrice, subscriptionDuration,
                           contentKey, contentKeySet>>
            /\ IF refundAmount(value) > 0
               THEN /\ _status' = "ENTERED"
                    /\ outer' = [op |-> "subscribe", receipt |-> receipt,
                                 saved |-> Saved]
                    /\ last' = [Receipt("call", ThisContract)
                                  EXCEPT !.sentTo = sender,
                                         !.sent = refundAmount(value)]
               ELSE /\ last' = receipt
                    /\ UNCHANGED callstack
       ELSE /\ last' = Reverted("subscribe", err)
            /\ UNCHANGED <<ledger, callstack>>
    /\ UNCHANGED <<now, offchain>>

\* withdraw up to its transfer to the owner
withdraw_enter(sender) ==
    LET err == IF ~onlyOwner(sender) THEN "OwnableUnauthorizedAccount"
               ELSE IF ~nonReentrant THEN "ReentrancyGuardReentrantCall"
               ELSE withdrawErr(sender, TRUE)
    IN
    /\ IF err = "ok"
       THEN /\ balance' = 0
            /\ collected' = 0
            /\ _status' = "ENTERED"
            /\ outer' = [op |-> "withdraw",
                         receipt |-> [Receipt("withdraw", sender)
                                        EXCEPT !.sentTo = owner,
                                               !.sent = balance,
                                               !.events = <<"FundsWithdrawn">>],
                         saved |-> Saved]
            /\ last' = [Receipt("call", ThisContract)
                          EXCEPT !.sentTo = owner, !.sent = balance]
            /\ UNCHANGED <<owner, subscriptionPrice, subscriptionDuration,
                           contentKey, contentKeySet, expirationTimestamps,
                           totalRevenue, acl>>
       ELSE /\ last' = Reverted("withdraw", err)
            /\ UNCHANGED <<ledger, callstack>>
    /\ UNCHANGED <<now, offchain>>

\* the transfer returns: require(success, ...) lets the suspended call
\* complete or reverts all of it
call_return(success) ==
    /\ outer.op # "none"
    /\ IF success
       THEN /\ last' = outer.receipt
            /\ UNCHANGED ledger
       ELSE /\ last' = Reverted(outer.op, IF outer.op = "subscribe"
                                          THEN "Refund failed"
                                          ELSE "Transfer failed")
            /\ expirationTimestamps' = outer.saved.expirationTimestamps
            /\ acl' = outer.saved.acl
            /\ totalRevenue' = outer.saved.totalRevenue
            /\ balance' = outer.saved.balance
            /\ collected' = outer.saved.collected
            /\ UNCHANGED <<owner, subscriptionPrice, subscriptionDuration,
                           contentKey, contentKeySet>>
    /\ _status' = "NOT_ENTERED"
    /\ outer' = NoCall
    /\ UNCHANGED <<now, offchain>>

\* ------------------------------------------------------------------ Next
\* a block is mined: time passes
Tick ==
    /\ now < MaxTime
    /\ now' = now + 1
    /\ last' = Receipt("mine", ZeroAddress)
    /\ UNCHANGED <<ledger, offchain, callstack>>

Next ==
    \/ \E s \in Accounts, p \in BOOLEAN :
          setContentKey(s, HandleOf[s], p)
    \/ \E s \in Accounts, p \in Prices, d \in UpdateDurations :
          updateSubscriptionParams(s, p, d)
    \/ \E s \in Accounts, ok \in BOOLEAN : withdraw(s, ok)
    \/ \E s \in Accounts, a \in Accounts, d \in GrantDurations :
          grantSubscription(s, a, d)
    \/ \E s \in Accounts, v \in Values, ok \in BOOLEAN :
          subscribe(s, v, ok)
    \/ \E s \in Accounts : getContentKey(s)
    \/ \E s \in Accounts, a \in Accounts : getSubscriptionDetails(s, a)
    \/ \E s \in Accounts, n \in Accounts \cup {ZeroAddress} :
          transferOwnership(s, n)
    \/ \E s \in Accounts : renounceOwnership(s)
    \/ Tick

Spec == Init /\ [][Next]_vars

\* The publisher's side of the ledger with a subscription duration that
\* changes: key set-up, parameter updates, paid subscriptions and time.
ParamsNext ==
    \/ \E s \in Accounts, p \in BOOLEAN :
          setContentKey(s, HandleOf[s], p)
    \/ \E s \in Accounts, p \in Prices, d \in NewDurations :
          updateSubscriptionParams(s, p, d)
    \/ \E s \in Accounts, v \in Values, ok \in BOOLEAN :
          subscribe(s, v, ok)
    \/ \E s \in Accounts, a \in Accounts : getSubscriptionDetails(s, a)
    \/ Tick

ParamsSpec == Init /\ [][ParamsNext]_vars

\* A reader's session: the key is set, subscriptions are bought at the
\* asking price, time passes, and one handshake at a time is run.
HandshakeNext ==
    \/ \E s \in Accounts, p \in BOOLEAN :
          setContentKey(s, HandleOf[s], p)
    \/ \E s \in Accounts : subscribe(s, subscriptionPrice, TRUE)
    \/ Tick
    \/ \E created \in BOOLEAN : initializeFheInstance(created)
    \/ \E caller \in Accounts : requestUserDecryption(1, caller, contentKey)
    \/ \E approved \in BOOLEAN : signTypedData(1, approved)
    \/ \E service \in ServiceStates : userDecrypt(1, service)

HandshakeSpec == Init /\ [][HandshakeNext]_vars

\* Two handshakes in flight together, their steps interleaved in any
\* order, against a ledger whose key is set.
ConcurrentNext ==
    \/ \E s \in Accounts, p \in BOOLEAN :
          setContentKey(s, HandleOf[s], p)
    \/ Tick
    \/ \E created \in BOOLEAN : initializeFheInstance(created)
    \/ \E i \in AttemptIds, caller \in Accounts :
          requestUserDecryption(i, caller, contentKey)
    \/ \E i \in AttemptIds, approved \in BOOLEAN : signTypedData(i, approved)
    \/ \E i \in AttemptIds, service \in ServiceStates :
          userDecrypt(i, service)

ConcurrentSpec == Init /\ [][ConcurrentNext]_vars

\* The ledger with its transfers in progress: between the entry of a
\* guarded call and the return of its transfer the receiving account calls
\* back; blocks are mined and the key is set between transactions only.
ReentryNext ==
    \/ /\ outer.op = "none"
       /\ \E s \in Accounts, p \in BOOLEAN :
             setContentKey(s, HandleOf[s], p)
    \/ \E s \in Accounts, v \in Values : subscribe_enter(s, v)
    \/ \E s \in Accounts : withdraw_enter(s)
    \/ \E success \in BOOLEAN : call_return(success)
    \/ outer.op = "none" /\ Tick

ReentrySpec == Init /\ [][ReentryNext]_vars

\* The content key on its way to the chain and back.
KeyNext ==
    \/ \E aesKey \in AesKeys : task_setContentKey(aesKey)
    \/ task_getContentKey

KeySpec == Init /\ [][KeyNext]_vars

\* A reader on the page of an article, against a ledger where the key is
\* set, subscriptions are bought at the asking price and time passes.
PageNext ==
    \/ \E p \in BOOLEAN : setContentKey(Deployer, HandleOf[Deployer], p)
    \/ \E s \in Accounts : subscribe(s, subscriptionPrice, TRUE)
    \/ Tick
    \/ \E data \in ContentDatas, approved \in BOOLEAN,
          message \in OperationErrorMessages :
          fetchContent(data, approved, "up", message)
    \/ \E a \in Accounts, created \in BOOLEAN, approved \in BOOLEAN,
          message \in OperationErrorMessages :
          connectWallet(a, created, approved, "up", message)
    \/ \E a \in Accounts : accountsChanged(a)
    \/ \E approved \in BOOLEAN, message \in OperationErrorMessages :
          handleSubscribe(approved, "up", message)

PageSpec == Init /\ [][PageNext]_vars

\* The content codec on its own: a plaintext is sealed under a key and the
\* result opened under the same or another key.
CodecNext ==
    \/ \E content \in Contents, keyHex \in KeyHexes, iv \in Ivs :
          encryptContent(content, keyHex, iv)
    \/ /\ codec.op = "encryptContent"
       /\ \E keyHex \in KeyHexes :
             decryptContent(codec.encryptedContent, codec.iv, keyHex)

CodecSpec == Init /\ [][CodecNext]_vars

\* ================================================================ claims
Max(a, b) == IF a > b THEN a ELSE b

Granted(r) == r.op \in {"subscribe", "grantSubscription"} /\ r.err = "ok"

\* C1: a successful subscribe or grantSubscription with duration d at time
\* now stores max(prior expiration, now) + d for the identity, and no step
\* ever lowers an expirationTimestamp or resets it to 0.
C1_ExpirationExtends ==
    [][ /\ \A a \in Accounts :
              /\ expirationTimestamps'[a] >= expirationTimestamps[a]
              /\ (expirationTimestamps[a] # 0 =>
                      expirationTimestamps'[a] # 0)
        /\ Granted(last') =>
              expirationTimestamps'[last'.subscriber] =
                  Max(expirationTimestamps[last'.subscriber], now)
                      + last'.duration
      ]_vars

\* a live subscription was renewed: the new expiration lies more than one
\* duration after the time of the call
C1_Witness ==
    /\ last.op = "subscribe" /\ last.err = "ok"
    /\ expirationTimestamps[last.subscriber] > now + last.duration

\* C2 (as stated): once the key is set, every later setContentKey call
\* fails with ContentKeyAlreadySet and leaves the stored key as it was.
C2_Original ==
    [][ (contentKeySet /\ last'.op = "setContentKey") =>
            (last'.err = "ContentKeyAlreadySet" /\ contentKey' = contentKey)
      ]_vars

\* C2 (amended): contentKeySet only goes from false to true; once it is
\* true the stored key never changes and every later setContentKey call
\* fails, with ContentKeyAlreadySet when the caller is the owner and with
\* OwnableUnauthorizedAccount when it is not.
C2_SetOnce ==
    [][ contentKeySet =>
            /\ contentKeySet'
            /\ contentKey' = contentKey
            /\ \A s \in Accounts, p \in BOOLEAN :
                  ( /\ last'.op = "setContentKey"
                    /\ setContentKey(s, HandleOf[s], p) ) =>
                      last'.err = IF s = owner
                                  THEN "ContentKeyAlreadySet"
                                  ELSE "OwnableUnauthorizedAccount"
      ]_vars

\* the owner tried to set the key a second time
C2_Witness ==
    /\ contentKeySet
    /\ last.op = "setContentKey"
    /\ last.err = "ContentKeyAlreadySet"

\* C3 (as stated): in every reachable state an underpaid subscribe fails
\* with InsufficientPayment and changes neither the subscriber table, the
\* ACL, totalRevenue nor the balance.
C3_Original ==
    [][ \A s \in Accounts, v \in Values, ok \in BOOLEAN :
          ( /\ last'.op = "subscribe"
            /\ v < subscriptionPrice
            /\ subscribe(s, v, ok) ) =>
              /\ last'.err = "InsufficientPayment"
              /\ UNCHANGED <<expirationTimestamps, acl, totalRevenue,
                             balance>>
      ]_vars

\* C3 (amended): an underpaid subscribe always fails and changes neither
\* the subscriber table, the ACL, totalRevenue nor the balance; the error
\* is InsufficientPayment once the content key is set and ContentKeyNotSet
\* before.
C3_UnderpaymentRejected ==
    [][ \A s \in Accounts, v \in Values, ok \in BOOLEAN :
          ( /\ last'.op = "subscribe"
            /\ v < subscriptionPrice
            /\ subscribe(s, v, ok) ) =>
              /\ last'.err = IF contentKeySet THEN "InsufficientPayment"
                             ELSE "ContentKeyNotSet"
              /\ UNCHANGED <<expirationTimestamps, acl, totalRevenue,
                             balance>>
      ]_vars

\* an underpaid subscribe was rejected while the ledger held a record and
\* funds
C3_Witness ==
    /\ last.op = "subscribe" /\ last.err = "InsufficientPayment"
    /\ contentKeySet
    /\ balance > 0
    /\ \E a \in Accounts : expirationTimestamps[a] # 0

\* C4: while the content key has never been set, getContentKey fails with
\* ContentKeyNotSet for every caller, the owner included.
C4_NotSetRejected ==
    (last.op = "getContentKey" /\ ~contentKeySet) =>
        last.err = "ContentKeyNotSet"

\* C5: a successful subscribe paying p refunds p - price to the payer and
\* the contract keeps exactly price; a successful withdraw sends the owner
\* the sum of the prices kept since the previous withdraw and empties the
\* balance.
C5_RefundAndWithdraw ==
    [][ /\ (last'.op = "subscribe" /\ last'.err = "ok") =>
              /\ last'.sent = last'.value - subscriptionPrice
              /\ last'.sent > 0 => last'.sentTo = last'.sender
              /\ balance' = balance + subscriptionPrice
        /\ (last'.op = "withdraw" /\ last'.err = "ok") =>
              /\ last'.sentTo = owner
              /\ last'.sent = collected
              /\ balance' = 0
      ]_vars

\* a withdraw paid out two collected prices after an overpaid subscribe
\* (totalRevenue is ahead of what was kept)
C5_Witness ==
    /\ last.op = "withdraw" /\ last.err = "ok"
    /\ last.sent = 2
    /\ totalRevenue > last.sent

\* C6: every successful subscribe raises totalRevenue by the subscription
\* price, not by the amount sent.
C6_RevenueByPrice ==
    [][ (last'.op = "subscribe" /\ last'.err = "ok") =>
            totalRevenue' = totalRevenue + subscriptionPrice
      ]_vars

\* C7: the current owner is a member of the ACL of the content key, also
\* after a change of ownership (read in the claim's favour: once a key
\* exists and while there is an owner).
C7_OwnerInAcl ==
    (contentKeySet /\ owner # ZeroAddress) => owner \in acl

\* C8: a successful subscribe or grantSubscription adds exactly the
\* subscribing identity to the ACL (nothing changes when it is already a
\* member), every identity with a record is a member, and no step removes
\* a member.
C8_AclGrows ==
    [][ /\ acl \subseteq acl'
        /\ Granted(last') => acl' = acl \cup {last'.subscriber}
        /\ \A a \in Accounts :
              expirationTimestamps'[a] # 0 => a \in acl'
      ]_vars

\* a non-owner whose subscription has expired is still in the ACL
C8_Witness ==
    \E a \in Accounts :
        /\ a # owner
        /\ expirationTimestamps[a] # 0
        /\ expirationTimestamps[a] <= now
        /\ a \in acl

C10_GateFollowsSubscription ==
    [][ /\ \A s \in Accounts :
              ( /\ last'.op = "getContentKey"
                /\ s # owner
                /\ expirationTimestamps[s] <= now
                /\ getContentKey(s) ) =>
                  last'.err = "NoValidSubscription"
        /\ (last'.op = "subscribe" /\ last'.err = "ok") =>
              expirationTimestamps'[last'.sender] > now
        /\ \A s \in Accounts :
              ( /\ last'.op = "getContentKey"
                /\ expirationTimestamps[s] > now
                /\ getContentKey(s) ) =>
                  last'.err = "ok"
        /\ ( /\ last.op = "subscribe" /\ last.err = "ok"
             /\ last'.op = "getContentKey"
             /\ getContentKey(last.sender) ) =>
              last'.err = "ok"
      ]_vars

\* a non-owner with a live subscription read the key handle
C10_Witness ==
    /\ last.op = "getContentKey" /\ last.err = "ok"
    /\ last.sender # owner
    /\ expirationTimestamps[last.sender] > now
    /\ last.ret = contentKey /\ contentKeySet

\* C11: getSubscriptionDetails reports (expirationTimestamp,
\* expirationTimestamp > now); a record created at time T with duration d
\* expires at T + d, and the passing of time alone, with no change to the
\* ledger, turns the reported validity from true to false exactly when now
\* reaches the expiration.
C11_ValidityIsExpirationAfterNow ==
    [][ /\ last'.op = "getSubscriptionDetails" =>
              last'.ret =
                  <<expirationTimestamps[last'.subscriber],
                    expirationTimestamps[last'.subscriber] > now>>
        /\ (Granted(last') /\ expirationTimestamps[last'.subscriber] = 0) =>
              expirationTimestamps'[last'.subscriber] = now + last'.duration
        /\ last'.op = "mine" =>
              /\ UNCHANGED ledger
              /\ \A a \in Accounts :
                    (expirationTimestamps'[a] > now') =
                        (expirationTimestamps[a] > now
                            /\ expirationTimestamps[a] # now')
      ]_vars

\* the record of an identity was reported as not valid at the very second
\* of its expiration
C11_Witness ==
    /\ last.op = "getSubscriptionDetails"
    /\ last.ret = <<now, FALSE>>

\* C13: a successful updateSubscriptionParams stores the new price and the
\* new duration and changes nothing else (no expirationTimestamp, not the
\* ACL, totalRevenue or the balance); the subscribe call that directly
\* follows it is rejected for underpayment exactly when it pays less than
\* the new price and, when it succeeds, extends by the new duration.
C13_UpdateOnlyParams ==
    [][ /\ (last'.op = "updateSubscriptionParams" /\ last'.err = "ok") =>
              /\ subscriptionPrice' = last'.value
              /\ subscriptionDuration' = last'.duration
              /\ UNCHANGED <<owner, contentKey, contentKeySet,
                             expirationTimestamps, acl, totalRevenue,
                             balance>>
        /\ \A s \in Accounts, v \in Values, ok \in BOOLEAN :
              ( /\ last'.op = "subscribe"
                /\ last.op = "updateSubscriptionParams" /\ last.err = "ok"
                /\ contentKeySet
                /\ subscribe(s, v, ok) ) =>
                  /\ (last'.err = "InsufficientPayment") = (v < last.value)
                  /\ last'.err = "ok" =>
                        expirationTimestamps'[s] =
                            Max(expirationTimestamps[s], now) + last.duration
      ]_vars

\* a subscription was extended by a duration no deployment starts with, on
\* top of a record made under the previous duration
C13_Witness ==
    /\ last.op = "subscribe" /\ last.err = "ok"
    /\ last.duration = 2
    /\ expirationTimestamps[last.subscriber] = 3
    /\ \E a \in Accounts : expirationTimestamps[a] = 2

OwnerOnlyOps ==
    {"setContentKey", "updateSubscriptionParams", "withdraw",
     "grantSubscription"}

\* C14: setContentKey, updateSubscriptionParams, withdraw and
\* grantSubscription called by anybody but the current owner fail with
\* OwnableUnauthorizedAccount, whatever else is wrong with the call, and a
\* call that fails so leaves the ledger unchanged; subscribe and
\* getSubscriptionDetails are never refused for who the caller is.
C14_OwnerOnly ==
    /\ [](\A s \in Accounts \ {owner} :
            /\ \A p \in BOOLEAN :
                  setContentKeyErr(s, p) = "OwnableUnauthorizedAccount"
            /\ \A d \in UpdateDurations :
                  updateSubscriptionParamsErr(s, d) =
                      "OwnableUnauthorizedAccount"
            /\ \A ok \in BOOLEAN :
                  withdrawErr(s, ok) = "OwnableUnauthorizedAccount"
            /\ \A a \in Accounts, d \in GrantDurations :
                  grantSubscriptionErr(s, a, d) =
                      "OwnableUnauthorizedAccount"
            /\ ( /\ contentKeySet
                 /\ Max(expirationTimestamps[s], now)
                       + subscriptionDuration <= UintMax
                 /\ totalRevenue + subscriptionPrice <= UintMax ) =>
                  subscribeErr(s, subscriptionPrice, TRUE) = "ok")
    /\ [][ /\ last'.err = "OwnableUnauthorizedAccount" =>
                  (last'.op \in OwnerOnlyOps \cup
                       {"transferOwnership", "renounceOwnership"}
                     /\ UNCHANGED ledger)
           /\ (last'.op \in OwnerOnlyOps /\ last'.err = "ok") =>
                  last'.sender = owner
           /\ last'.op = "getSubscriptionDetails" => last'.err = "ok"
         ]_vars

\* somebody who is not the owner was refused the funds the contract holds
C14_Witness ==
    /\ last.op = "withdraw"
    /\ last.err = "OwnableUnauthorizedAccount"
    /\ balance > 0

C16_GrantIsFree ==
    [][ (last'.op = "grantSubscription" /\ last'.err = "ok") =>
            /\ expirationTimestamps' =
                  [expirationTimestamps EXCEPT
                     ![last'.subscriber] =
                        Max(expirationTimestamps[last'.subscriber], now)
                            + last'.duration]
            /\ last'.subscriber \in acl'
            /\ totalRevenue' = totalRevenue
            /\ balance' = balance
            /\ collected' = collected
            /\ last'.value = 0
            /\ last'.sent = 0 /\ last'.sentTo = ZeroAddress
      ]_vars

\* the owner extended somebody else's live subscription for free while the
\* contract held revenue
C16_Witness ==
    /\ last.op = "grantSubscription" /\ last.err = "ok"
    /\ last.subscriber # last.sender
    /\ last.duration > 0
    /\ expirationTimestamps[last.subscriber] > now + last.duration
    /\ totalRevenue > 0 /\ balance > 0

\* C17 (as stated): while the content key is not set, subscribe and
\* grantSubscription fail with ContentKeyNotSet and change nothing, and an
\* identity has a non-zero expirationTimestamp only when contentKeySet.
C17_Original ==
    /\ [](\A a \in Accounts :
            expirationTimestamps[a] # 0 => contentKeySet)
    /\ [][ ( /\ ~contentKeySet
             /\ last'.op \in {"subscribe", "grantSubscription"} ) =>
                (last'.err = "ContentKeyNotSet" /\ UNCHANGED ledger)
         ]_vars

\* C17 (amended): while the content key is not set, subscribe fails with
\* ContentKeyNotSet and grantSubscription fails with ContentKeyNotSet when
\* the owner calls it and with OwnableUnauthorizedAccount when anybody
\* else does; both change nothing, and an identity has a non-zero
\* expirationTimestamp only when contentKeySet.
C17_KeyBeforeRecords ==
    /\ [](\A a \in Accounts :
            expirationTimestamps[a] # 0 => contentKeySet)
    /\ [](~contentKeySet =>
            \A s \in Accounts :
               /\ \A v \in Values, ok \in BOOLEAN :
                     subscribeErr(s, v, ok) = "ContentKeyNotSet"
               /\ \A a \in Accounts, d \in GrantDurations :
                     grantSubscriptionErr(s, a, d) =
                         IF s = owner THEN "ContentKeyNotSet"
                         ELSE "OwnableUnauthorizedAccount")
    /\ [][ ~contentKeySet =>
              /\ last'.op = "subscribe" =>
                    (last'.err = "ContentKeyNotSet" /\ UNCHANGED ledger)
              /\ last'.op = "grantSubscription" =>
                    /\ last'.err \in {"ContentKeyNotSet",
                                      "OwnableUnauthorizedAccount"}
                    /\ UNCHANGED ledger
         ]_vars

\* the owner tried to grant a subscription before setting the key
C17_Witness ==
    /\ ~contentKeySet
    /\ last.op = "grantSubscription"
    /\ last.err = "ContentKeyNotSet"
    /\ \A a \in Accounts : expirationTimestamps[a] = 0

\* C12: the handshake returns the plaintext key only to a caller who, at
\* the time of the request, is the owner or holds a subscription that has
\* not expired.
C12_HandshakeOnlyForLive ==
    (last.op = "requestUserDecryption" /\ last.err = "ok") =>
        \/ last.sender = owner
        \/ expirationTimestamps[last.sender] > now

\* C18: when the decryption service cannot be reached, the error
\* requestUserDecryption gives its caller is the transient "service
\* unavailable" one.
C18_UnreachableIsUnavailable ==
    [][ \A i \in AttemptIds, service \in NetworkFailures :
          ( /\ last'.op = "requestUserDecryption"
            /\ userDecrypt(i, service) ) =>
              last'.err = ServiceUnavailable
      ]_vars

InFlight(i) == attempts[i].pc # "idle"

\* C19: every handshake in flight has a keypair of its own, an issue time
\* and a 10-day window; the signature it holds is over its own public key,
\* time and window, and what it submits is its own keypair and signature
\* and nobody else's, so the service never rejects it for a mismatch; a
\* step of one handshake leaves the other as it was.
C19_AttemptsAreSeparate ==
    /\ [](\A i \in AttemptIds :
            InFlight(i) =>
              /\ attempts[i].keypair \in 1..(nextKeypair - 1)
              /\ attempts[i].durationDays = 10
              /\ attempts[i].startTimeStamp \in 1..now
              /\ \A j \in AttemptIds \ {i} :
                    InFlight(j) =>
                      attempts[j].keypair # attempts[i].keypair
              /\ attempts[i].pc = "userDecrypt" =>
                    /\ attempts[i].signature =
                          [signer |-> attempts[i].caller,
                           publicKey |-> attempts[i].keypair,
                           startTimeStamp |-> attempts[i].startTimeStamp,
                           durationDays |-> 10]
                    /\ Request(i).publicKey = attempts[i].keypair
                    /\ Request(i).privateKey = attempts[i].keypair
                    /\ Request(i).signature = attempts[i].signature
                    /\ \A j \in AttemptIds \ {i} :
                          InFlight(j) =>
                            /\ Request(i).publicKey # attempts[j].keypair
                            /\ Request(i).signature # attempts[j].signature
                    /\ userDecryptErr(Request(i), "up") \in
                          {"ok",
                           "user is not authorized to decrypt the handle"})
    /\ [][ \A i \in AttemptIds :
              attempts'[i] # attempts[i] =>
                /\ \A j \in AttemptIds \ {i} : attempts'[j] = attempts[j]
                /\ ( /\ attempts[i].pc = "userDecrypt"
                     /\ last'.err = "ok" ) =>
                       /\ last'.sender = attempts[i].caller
                       /\ last'.ret = PlainOf[attempts[i].handle]
         ]_vars

\* two handshakes of the same caller for the same handle are in flight,
\* the one started first is about to submit while the other still waits
\* for the wallet
C19_Witness ==
    /\ attempts[1].pc = "userDecrypt"
    /\ attempts[2].pc = "signTypedData"
    /\ attempts[1].caller = attempts[2].caller
    /\ attempts[1].handle = attempts[2].handle
    /\ attempts[1].handle # 0
    /\ attempts[1].keypair < attempts[2].keypair
    /\ attempts[1].caller \in acl

\* C20: decryptContent applied to what encryptContent returned gives back
\* the original plaintext when it is given the same key, and fails
\* authentication when it is given a different key.
C20_RoundTrip ==
    codec.op = "decryptContent" =>
        IF hexToBytes(codec.openKeyHex) = hexToBytes(codec.keyHex)
        THEN codec.err = "ok" /\ codec.ret = codec.content
        ELSE codec.err = "OperationError"

\* C27: subscriptionDuration is greater than 0 in every reachable state: a
\* deployment with duration 0 fails with InvalidDuration, and so does an
\* updateSubscriptionParams with newDuration 0, which leaves price and
\* duration as they were; a price of 0 is accepted, and a subscribe paying
\* 0 at price 0 succeeds.
C27_DurationPositive ==
    /\ [](/\ subscriptionDuration > 0
          /\ \A d \in DeployDurations :
                (constructorErr(d) = "InvalidDuration") = (d = 0)
          /\ \A s \in Accounts : onlyOwner(s) =>
                /\ updateSubscriptionParamsErr(s, 0) = "InvalidDuration"
                /\ \A d \in NewDurations \ {0} :
                      updateSubscriptionParamsErr(s, d) = "ok"
          /\ \A s \in Accounts :
                ( /\ contentKeySet /\ subscriptionPrice = 0
                  /\ createOrExtendErr(s, subscriptionDuration, 0) = "ok" )
                => subscribeErr(s, 0, FALSE) = "ok")
    /\ [][ /\ last'.err = "InvalidDuration" =>
                 /\ last'.op = "updateSubscriptionParams"
                 /\ UNCHANGED ledger
           /\ (last'.op = "updateSubscriptionParams" /\ last'.err = "ok") =>
                 /\ last'.duration > 0
                 /\ subscriptionPrice' = last'.value
           /\ (last'.op = "subscribe" /\ last'.err = "ok"
                 /\ last'.value = 0) =>
                 /\ subscriptionPrice = 0
                 /\ expirationTimestamps'[last'.subscriber] =
                       Max(expirationTimestamps[last'.subscriber], now)
                         + subscriptionDuration
                 /\ balance' = balance /\ totalRevenue' = totalRevenue
         ]_vars

\* an update to duration 0 was just rejected at price 0, where a reader
\* holds a record that cost nothing
C27_Witness ==
    /\ last.op = "updateSubscriptionParams"
    /\ last.err = "InvalidDuration"
    /\ subscriptionPrice = 0 /\ totalRevenue = 0
    /\ \E a \in Accounts : expirationTimestamps[a] # 0

\* C29: expiration and revenue arithmetic never wraps around: a subscribe
\* or grantSubscription whose max(expiration, now) + duration, or whose
\* totalRevenue + amount, exceeds the integer range fails and leaves the
\* state unchanged, so no call makes an expirationTimestamp smaller than
\* it was.
C29_NoWrapAround ==
    /\ [](/\ totalRevenue <= UintMax
          /\ \A a \in Accounts : expirationTimestamps[a] <= UintMax
          /\ \A a \in Accounts, v \in Values,
                d \in GrantDurations \cup {subscriptionDuration} :
                ( \/ Max(expirationTimestamps[a], now) + d > UintMax
                  \/ totalRevenue + v > UintMax )
                => createOrExtendErr(a, d, v) = "Panic")
    /\ [][ /\ last'.err = "Panic" =>
                 /\ last'.op \in {"subscribe", "grantSubscription"}
                 /\ UNCHANGED ledger
           /\ Granted(last') =>
                 /\ Max(expirationTimestamps[last'.subscriber], now)
                       + last'.duration <= UintMax
                 /\ expirationTimestamps'[last'.subscriber] =
                       Max(expirationTimestamps[last'.subscriber], now)
                         + last'.duration
                 /\ totalRevenue' - totalRevenue \in {0, last'.value}
           /\ \A a \in Accounts :
                 expirationTimestamps'[a] >= expirationTimestamps[a]
         ]_vars

\* a subscribe was rejected by the overflow check
C29_Witness ==
    /\ last.op = "subscribe" /\ last.err = "Panic"
    /\ \E a \in Accounts :
          Max(expirationTimestamps[a], now) + subscriptionDuration > UintMax

\* identities holding a subscription record
Recorded == {a \in Accounts : expirationTimestamps[a] # 0}

\* C28: once the content key is set, its ACL is exactly the contract, the
\* identity that called setContentKey and every identity with a non-zero
\* expirationTimestamp: setContentKey makes it {contract, caller}, each
\* subscribe or grantSubscription adds the identity it records, nothing
\* else changes it; an identity granted duration 0 is in it although its
\* subscription was never valid.
C28_AclExactly ==
    /\ [](IF contentKeySet
          THEN /\ {ThisContract} \cup Recorded \subseteq acl
               /\ acl \subseteq {ThisContract} \cup Accounts
               /\ Cardinality(acl \ ({ThisContract} \cup Recorded)) <= 1
          ELSE acl = {} /\ Recorded = {})
    /\ [][ /\ (last'.op = "setContentKey" /\ last'.err = "ok") =>
                 acl' = {ThisContract, last'.sender}
           /\ Granted(last') =>
                 /\ acl' = acl \cup {last'.subscriber}
                 /\ expirationTimestamps'[last'.subscriber] # 0
                 /\ \A a \in Accounts \ {last'.subscriber} :
                       expirationTimestamps'[a] = expirationTimestamps[a]
           /\ ~( \/ Granted(last')
                 \/ last'.op = "setContentKey" /\ last'.err = "ok" ) =>
                 /\ acl' = acl
                 /\ expirationTimestamps' = expirationTimestamps
         ]_vars

\* a reader was granted duration 0 in the first block: it holds the
\* capability, and its subscription is not and never was valid
C28_Witness ==
    /\ last.op = "grantSubscription" /\ last.err = "ok"
    /\ last.duration = 0 /\ now = 1
    /\ last.subscriber # last.sender
    /\ expirationTimestamps[last.subscriber] = 1
    /\ last.subscriber \in acl
    /\ ~_isSubscriptionValid(last.subscriber)

\* how often an event occurs in a receipt
Emitted(r, e) == Cardinality({i \in DOMAIN r.events : r.events[i] = e})

\* C26: a successful subscribe or grantSubscription emits
\* SubscriptionPurchased exactly when the identity had no record before
\* (expirationTimestamp = 0) and SubscriptionRenewed exactly when it had
\* one, expired or not; it always emits KeyAccessGranted, and no call
\* that fails emits anything.
C26_PurchasedOrRenewed ==
    [][ /\ Granted(last') =>
             LET before == expirationTimestamps[last'.subscriber] IN
             /\ Emitted(last', "SubscriptionPurchased")
                   = (IF before = 0 THEN 1 ELSE 0)
             /\ Emitted(last', "SubscriptionRenewed")
                   = (IF before = 0 THEN 0 ELSE 1)
             /\ Emitted(last', "KeyAccessGranted") = 1
             /\ Len(last'.events) = 2
        /\ ~Granted(last') =>
             /\ Emitted(last', "SubscriptionPurchased") = 0
             /\ Emitted(last', "SubscriptionRenewed") = 0
             /\ Emitted(last', "KeyAccessGranted") = 0
        /\ last'.err # "ok" => last'.events = <<>>
      ]_vars

\* a subscribe renewed a record that had already expired: the new
\* expiration counts from the current time
C26_Witness ==
    /\ last.op = "subscribe" /\ last.err = "ok"
    /\ Emitted(last, "SubscriptionRenewed") = 1
    /\ expirationTimestamps[last.subscriber] = now + last.duration
    /\ now > 1

\* C25: every mutating call is all-or-nothing: a call that fails leaves
\* the whole ledger as it was and emits nothing; in particular a subscribe
\* whose refund is not accepted fails with "Refund failed" and a withdraw
\* whose transfer is not accepted fails with "Transfer failed", and no
\* record, ACL grant, revenue or balance change of that call remains.
C25_AllOrNothing ==
    /\ [](/\ \A s \in Accounts, v \in Values :
                ( /\ contentKeySet /\ v > subscriptionPrice
                  /\ createOrExtendErr(s, subscriptionDuration, v) = "ok" )
                => subscribeErr(s, v, FALSE) = "Refund failed"
          /\ \A s \in Accounts :
                (onlyOwner(s) /\ balance > 0)
                => withdrawErr(s, FALSE) = "Transfer failed")
    /\ [][ /\ last'.err # "ok" =>
                 /\ UNCHANGED ledger
                 /\ last'.events = <<>> /\ last'.sent = 0
           /\ last'.err = "Refund failed" => last'.op = "subscribe"
           /\ last'.err = "Transfer failed" => last'.op = "withdraw"
         ]_vars

\* the first subscribe overpaid and its refund was refused: there is still
\* no record, no reader in the ACL, no revenue and no balance
C25_Witness ==
    /\ last.op = "subscribe" /\ last.err = "Refund failed"
    /\ contentKeySet
    /\ \A a \in Accounts : expirationTimestamps[a] = 0
    /\ Cardinality(acl) = 2
    /\ totalRevenue = 0 /\ balance = 0

\* C24: while the transfer of withdraw or the refund of subscribe is in
\* progress, a subscribe or withdraw called from the callback fails and
\* changes nothing; in subscribe the record, the ACL grant and the
\* revenue are written before the refund is sent; when the suspended call
\* completes, the subscriber table, totalRevenue and balance are what the
\* call alone makes of the state it started from.
C24_NoReentry ==
    /\ []((_status = "ENTERED") = (outer.op # "none"))
    /\ [][ /\ (outer.op # "none" /\ last'.op \in {"subscribe", "withdraw"}
                 /\ outer' = outer) =>
                 /\ last'.err \in {"ReentrancyGuardReentrantCall",
                                    "OwnableUnauthorizedAccount"}
                 /\ UNCHANGED ledger
           /\ (outer.op = "none" /\ outer'.op = "subscribe") =>
                 LET r == outer'.receipt IN
                 /\ expirationTimestamps' =
                       [expirationTimestamps EXCEPT ![r.subscriber] =
                          Max(expirationTimestamps[r.subscriber], now)
                            + subscriptionDuration]
                 /\ acl' = acl \cup {r.subscriber}
                 /\ totalRevenue' = totalRevenue + r.value
                 /\ last'.op = "call" /\ last'.sentTo = r.subscriber
                 /\ last'.sent = r.value - subscriptionPrice
           /\ (outer.op # "none" /\ outer'.op = "none"
                 /\ last'.err = "ok") =>
                 LET r == outer.receipt
                     was == outer.saved
                 IN
                 /\ last' = r
                 /\ totalRevenue' = was.totalRevenue + r.value
                 /\ balance' = (was.balance + r.value) - r.sent
                 /\ expirationTimestamps' =
                       IF r.op = "withdraw" THEN was.expirationTimestamps
                       ELSE [was.expirationTimestamps EXCEPT
                               ![r.subscriber] =
                                  Max(was.expirationTimestamps[r.subscriber],
                                      now) + subscriptionDuration]
           /\ (outer.op # "none" /\ outer'.op = "none"
                 /\ last'.err # "ok") =>
                 /\ expirationTimestamps' = outer.saved.expirationTimestamps
                 /\ totalRevenue' = outer.saved.totalRevenue
                 /\ balance' = outer.saved.balance
                 /\ acl' = outer.saved.acl
         ]_vars

\* from the callback of a withdraw that carries funds, a call was made
\* back into the contract and failed on the guard
C24_Witness ==
    /\ outer.op = "withdraw" /\ outer.receipt.sent > 0
    /\ last.op \in {"subscribe", "withdraw"}
    /\ last.err = "ReentrancyGuardReentrantCall"

\* C30: turning a key into an integer for storage and the decrypted
\* integer back into hex text, in base 16 and left-padded with zeros to
\* two digits a byte, gives the bytes of the key again, for every key,
\* also one whose leading bytes are zero.
C30_KeyRoundTrip ==
    codec.op = "task:getContentKey" =>
        /\ codec.keyBytes = codec.aesKey
        /\ Len(codec.keyHex) = 2 + 2 * KeyBytes
        /\ hexToBytes(SubSeq(codec.keyHex, 3, Len(codec.keyHex)))
              = codec.aesKey

\* a key whose first byte is zero went to the chain and came back
C30_Witness ==
    /\ codec.op = "task:getContentKey"
    /\ codec.aesKey[1] = 0 /\ codec.aesKey[KeyBytes] = 1
    /\ codec.keyBytes = codec.aesKey

\* C21: a decryptContent that fails (the tag does not verify: another
\* key, a changed ciphertext or a changed IV) returns no plaintext, and
\* the page keeps the decryptedContent it had and records an error.
C21_FailureKeepsContent ==
    /\ [](\A data \in ContentDatas, h \in {1, 2} :
            LET keyHex == keyHexOf(PlainOf[h]) IN
            /\ (data \notin {Sealed(c, h) : c \in Articles}) =>
                  decryptContentErr(data.encryptedContent, data.iv, keyHex)
                     = "OperationError"
            /\ decryptContentErr(data.encryptedContent, data.iv, keyHex)
                  # "ok" =>
                  decryptContentRet(data.encryptedContent, data.iv, keyHex)
                     = Null)
    /\ [][ (last'.op = "handleDecrypt" /\ last'.err = "OperationError") =>
             /\ page'.decryptedContent = page.decryptedContent
             /\ page'.error \in
                   (OperationErrorMessages \ {""})
                     \cup {"Failed to decrypt content"}
         ]_vars

\* an article was decrypted and shown, then an envelope that does not
\* verify was loaded: the error is recorded next to the earlier plaintext
C21_Witness ==
    /\ last.op = "handleDecrypt" /\ last.err = "OperationError"
    /\ ~page.decryptedContent.null
    /\ page.decryptedContent.value \in Articles
    /\ page.error = "Failed to decrypt content"

\* C23: whenever the account connected in the wallet is neither the owner
\* nor a valid subscriber, the page shows no decrypted content, also after
\* the account has changed from an authorized one.
C23_UnauthorizedSeesNoContent ==
    ( /\ page.wallet # NoAccount
      /\ page.wallet # owner
      /\ ~_isSubscriptionValid(page.wallet) )
    => page.decryptedContent.null
====
